---- MODULE Spec2Model ----
(***************************************************************************)
(* Model of the two maintenance tools of mpunch-catalog:                   *)
(*   src/data/normalize_filenames.py  (strip the hash suffix of image      *)
(*                                     filenames and patch the JSON)       *)
(*   src/data/imgnormalizer.py        (delete images the JSON does not     *)
(*                                     reference)                          *)
(* A string is a sequence of one-character strings, so that the string     *)
(* functions of the source are computed character by character.  String    *)
(* positions are Python's (0-based; rfind gives -1 when nothing is found). *)
(* os.path and pathlib are modelled with their POSIX behaviour.            *)
(***************************************************************************)
EXTENDS Integers, Sequences, FiniteSets, TLC

VARIABLES
    json_file,          \* the JSON document on disk: a sequence of records
    backup_file,        \* '<json path>.backup' on disk: <<document>>, <<>> when absent
    files,              \* names of the regular files of the data folder
    dirs,               \* names of the sub-directories of the data folder
    pc,                 \* position of the running tool
    tool,               \* which script runs: "normalize" or "cleanup"
    dry_run,            \* the --dry-run flag of the run
    json_data,          \* the document in memory (load_json_data's result)
    operations,         \* the plan: sequence of <<old, new, json_idx>>
    success_count,      \* perform_normalization's counter
    log,                \* one printed line per executed operation: "ok" / "err"
    response,           \* what the user typed at the prompt
    referenced_images,  \* cleanup: extract_referenced_images' result
    unused_images,      \* cleanup: images_in_folder - referenced_images
    pending,            \* cleanup: images the deletion loop has yet to visit
    deleted_count,      \* cleanup: remove_unused_images' counter
    arg,                \* argument of a direct call of normalize_filename
    ret                 \* its return value

vars == <<json_file, backup_file, files, dirs, pc, tool, dry_run, json_data,
          operations, success_count, log, response, referenced_images,
          unused_images, pending, deleted_count, arg, ret>>

-----------------------------------------------------------------------------
(* Bounds of the model *)

\* longest document (number of records) the runs start from
MaxRecords == 2
\* longest string normalize_filename is called on directly
MaxLen == 4

-----------------------------------------------------------------------------
(* Python's str operations *)

\* s[lo:hi]
Slice(s, lo, hi) == SubSeq(s, lo + 1, hi)

\* s.rfind(c): the highest index of c in s, -1 when c does not occur
rfind(s, c) ==
    IF \E i \in 1..Len(s) : s[i] = c
    THEN (CHOOSE i \in 1..Len(s) :
              s[i] = c /\ \A j \in (i + 1)..Len(s) : s[j] # c) - 1
    ELSE -1

\* s.replace(old, new) for one-character old and new
replace(s, old, new) == [i \in 1..Len(s) |-> IF s[i] = old THEN new ELSE s[i]]

\* s.split(sep): the pieces of s between the occurrences of sep
RECURSIVE split(_, _)
split(s, sep) ==
    LET i == rfind(s, sep)
    IN  IF i = -1 THEN <<s>>
        ELSE Append(split(Slice(s, 0, i), sep), Slice(s, i + 1, Len(s)))

\* sep.join(parts)
RECURSIVE join(_, _)
join(parts, sep) ==
    IF Len(parts) = 0 THEN <<>>
    ELSE IF Len(parts) = 1 THEN parts[1]
    ELSE join(SubSeq(parts, 1, Len(parts) - 1), sep)
             \o <<sep>> \o parts[Len(parts)]

\* c.lower() on the letters the model's filenames use
LowerChar(c) ==
    CASE c = "J" -> "j"
      [] c = "Y" -> "y"
      [] c = "P" -> "p"
      [] c = "G" -> "g"
      [] OTHER   -> c

\* s.lower()
lower(s) == [i \in 1..Len(s) |-> LowerChar(s[i])]

\* splitext as a plain cut at the last '.', leading dots included
splitextLastDot(p) ==
    LET dotIndex == rfind(p, ".")
    IN  IF dotIndex >= 0
        THEN <<Slice(p, 0, dotIndex), Slice(p, dotIndex, Len(p))>>
        ELSE <<p, <<>>>>

\* os.path.splitext(p): <<root, ext>>.  ext starts at the last '.', provided
\* that dot comes after the last '/' and some character between that '/' and
\* the dot is not a dot (leading dots do not start an extension).
splitext(p) ==
    LET sepIndex == rfind(p, "/")
        dotIndex == rfind(p, ".")
    IN  IF /\ dotIndex > sepIndex
           /\ \E k \in (sepIndex + 1)..(dotIndex - 1) : p[k + 1] # "."
        THEN <<Slice(p, 0, dotIndex), Slice(p, dotIndex, Len(p))>>
        ELSE <<p, <<>>>>

\* os.path.basename(p): what follows the last '/'
basename(p) == Slice(p, rfind(p, "/") + 1, Len(p))

\* pathlib's Path.suffix of a file name: from the last '.', unless that dot
\* is the first or the last character of the name
suffix(name) ==
    LET i == rfind(name, ".")
    IN  IF 0 < i /\ i < Len(name) - 1 THEN Slice(name, i, Len(name)) ELSE <<>>

-----------------------------------------------------------------------------
(* normalize_filenames.py: the pure functions *)

normalize_filename(filename) ==
    IF filename = <<>> THEN filename
    ELSE LET name_part  == splitext(filename)[1]
             extension  == splitext(filename)[2]
             last_underscore_idx == rfind(name_part, "_")
         IN  IF last_underscore_idx = -1 THEN filename
             ELSE Slice(name_part, 0, last_underscore_idx) \o extension

normalize_image_path(image_path) ==
    IF image_path = <<>> THEN image_path
    ELSE LET path_parts == split(replace(image_path, "\\", "/"), "/")
             normalized_filename == normalize_filename(path_parts[Len(path_parts)])
             normalized_path ==
                 join([path_parts EXCEPT ![Len(path_parts)] = normalized_filename],
                      "/")
         IN  IF \E i \in 1..Len(image_path) : image_path[i] = "\\"
             THEN replace(normalized_path, "/", "\\")
             ELSE normalized_path

-----------------------------------------------------------------------------
(* The data the runs start from *)

PNG == <<".", "p", "n", "g">>

\* file names of the data folder
A1 == <<"a", "_", "1">> \o PNG
A2 == <<"a", "_", "2">> \o PNG
A  == <<"a">> \o PNG
BJ == <<"b", ".", "J", "P", "G">>
NT == <<"n", "_", "1", ".", "t", "x", "t">>

FileNames == {A1, A2, A, BJ, NT}
DirNames  == {A}

\* image_url values: written with '/', with both separators, with '\' only,
\* already canonical, and empty
UrlFwd   == <<"i", "/">> \o A1
UrlMixed == <<"d", "/", "e", "\\">> \o A1
UrlBack  == <<"i", "\\">> \o A2
UrlCanon == A
UrlEmpty == <<>>

Urls == {UrlFwd, UrlMixed, UrlBack, UrlCanon, UrlEmpty}

\* a record carries a title and, optionally, an image_url
Records == {[title |-> "t"]} \cup {[title |-> "t", image_url |-> u] : u \in Urls}

Documents == UNION {[1..n -> Records] : n \in 0..MaxRecords}

\* the characters of the strings normalize_filename is called on directly
Alphabet == {"a", "_", ".", "/"}

Strings == UNION {[1..n -> Alphabet] : n \in 0..MaxLen}

\* what the user may type at a confirmation prompt
Responses == {<<"Y">>, <<"n">>, <<>>}

\* response.lower() in ['y', 'yes']
Confirmed(r) == lower(r) \in {<<"y">>, <<"y", "e", "s">>}

-----------------------------------------------------------------------------
(* normalize_filenames.py: the planner *)

\* Path.exists() of data_folder / name
exists(name, fs, ds) == name \in fs \cup ds

\* 'image_url' not in item or not item['image_url']
NoImageUrl(item) == "image_url" \notin DOMAIN item \/ item.image_url = <<>>

\* One turn of get_file_operations' loop, for the record at Python index idx:
\* the operations list after the turn.  A path is written as the file name
\* below data_folder.
PlanRecord(ops, item, idx, fs, ds) ==
    IF NoImageUrl(item) THEN ops
    ELSE LET current_filename == basename(replace(item.image_url, "\\", "/"))
             normalized_filename == normalize_filename(current_filename)
         IN  IF current_filename = normalized_filename THEN ops
             ELSE IF ~exists(current_filename, fs, ds) THEN ops
             ELSE IF /\ exists(normalized_filename, fs, ds)
                     /\ normalized_filename # current_filename THEN ops
             ELSE Append(ops, <<current_filename, normalized_filename, idx>>)

\* the loop over the first n records
RECURSIVE PlanPrefix(_, _, _, _)
PlanPrefix(doc, n, fs, ds) ==
    IF n = 0 THEN <<>>
    ELSE PlanRecord(PlanPrefix(doc, n - 1, fs, ds), doc[n], n - 1, fs, ds)

get_file_operations(doc, fs, ds) == PlanPrefix(doc, Len(doc), fs, ds)

-----------------------------------------------------------------------------
(* imgnormalizer.py: the two sets *)

extract_referenced_images(doc) ==
    {basename(replace(doc[i].image_url, "\\", "/")) :
        i \in {j \in 1..Len(doc) : ~NoImageUrl(doc[j])}} \ {<<>>}

image_extensions ==
    {<<".", "p", "n", "g">>, <<".", "j", "p", "g">>, <<".", "j", "p", "e", "g">>,
     <<".", "g", "i", "f">>, <<".", "b", "m", "p">>, <<".", "t", "i", "f", "f">>,
     <<".", "w", "e", "b", "p">>}

\* the folder scan without the extension allow-list
get_files_in_folder(fs, ds) == {name \in fs \cup ds : name \in fs}

\* iterdir() gives files and directories; is_file() keeps the files
get_images_in_folder(fs, ds) ==
    {name \in fs \cup ds : name \in fs /\ lower(suffix(name)) \in image_extensions}

\* the unused set without the subtraction of the referenced names
UnusedImagesAll(fs, ds, referenced) == get_images_in_folder(fs, ds)

\* images_in_folder - referenced_images
UnusedImages(fs, ds, referenced) == get_images_in_folder(fs, ds) \ referenced

-----------------------------------------------------------------------------
(* The state machine *)

Init ==
    /\ json_file \in Documents
    /\ backup_file = <<>>
    /\ dirs \in SUBSET DirNames
    /\ files \in SUBSET (FileNames \ dirs)
    /\ pc = "idle"
    /\ tool = "none"
    /\ dry_run = FALSE
    /\ json_data = <<>>
    /\ operations = <<>>
    /\ success_count = 0
    /\ log = <<>>
    /\ response = <<>>
    /\ referenced_images = {}
    /\ unused_images = {}
    /\ pending = {}
    /\ deleted_count = 0
    /\ arg = <<>>
    /\ ret = <<>>

\* no tool is running: a script can be started
AtShell == pc \in {"idle", "done", "crashed"}

\* perform_normalization without the dry_run return
AfterPreviewNoDryRun(ops, dry) ==
    IF ops = <<>> THEN "done" ELSE "prompt"

\* perform_normalization after preview_operations: return when the plan is
\* empty, return when dry_run, otherwise ask for confirmation
AfterPreview(ops, dry) ==
    IF ops = <<>> THEN "done" ELSE IF dry THEN "done" ELSE "prompt"

\* normalize_filenames.py is started: load, plan, preview
NormalizeMain(dry) ==
    /\ AtShell
    /\ tool' = "normalize"
    /\ dry_run' = dry
    /\ json_data' = json_file
    /\ operations' = get_file_operations(json_file, files, dirs)
    /\ pc' = AfterPreview(operations', dry)
    /\ success_count' = 0
    /\ log' = <<>>
    /\ response' = <<>>
    /\ referenced_images' = {}
    /\ unused_images' = {}
    /\ pending' = {}
    /\ deleted_count' = 0
    /\ UNCHANGED <<json_file, backup_file, files, dirs, arg, ret>>

\* the loop's exit without the success_count test: always save
AfterTurnAlwaysSave(n, ops, count) ==
    IF n < Len(ops) THEN "loop" ELSE "backup"

\* the position after the loop turn that leaves n lines in the log: the next
\* turn, or, past the last operation, the save when something succeeded
AfterTurn(n, ops, count) ==
    IF n < Len(ops) THEN "loop" ELSE IF count > 0 THEN "backup" ELSE "done"

\* the answer at perform_normalization's prompt
NormalizeConfirm(r) ==
    /\ pc = "prompt"
    /\ tool = "normalize"
    /\ response' = r
    /\ pc' = IF Confirmed(r) THEN AfterTurn(0, operations, 0) ELSE "done"
    /\ UNCHANGED <<json_file, backup_file, files, dirs, tool, dry_run, json_data,
                   operations, success_count, log, referenced_images,
                   unused_images, pending, deleted_count, arg, ret>>

\* the operation the loop is at
CurrentOp == operations[Len(log) + 1]

\* os.rename(old, new) on the folder's files: new takes old's place (and
\* replaces a file already named new)
rename(fs, old, new) == (fs \ {old}) \cup {new}

\* the record patch of a successful turn
PatchRecord(doc, json_idx) ==
    [doc EXCEPT ![json_idx + 1].image_url = normalize_image_path(@)]

\* a loop turn whose os.rename succeeds
RenameOk ==
    /\ pc = "loop"
    /\ tool = "normalize"
    /\ CurrentOp[1] \in files
    /\ files' = rename(files, CurrentOp[1], CurrentOp[2])
    /\ json_data' = PatchRecord(json_data, CurrentOp[3])
    /\ success_count' = success_count + 1
    /\ log' = Append(log, "ok")
    /\ pc' = AfterTurn(Len(log'), operations, success_count')
    /\ UNCHANGED <<json_file, backup_file, dirs, tool, dry_run, operations,
                   response, referenced_images, unused_images, pending,
                   deleted_count, arg, ret>>

\* a failing turn with the record patched before the rename is tried
RenameFailPatched ==
    /\ pc = "loop"
    /\ tool = "normalize"
    /\ json_data' = PatchRecord(json_data, CurrentOp[3])
    /\ log' = Append(log, "err")
    /\ pc' = AfterTurn(Len(log'), operations, success_count)
    /\ UNCHANGED <<json_file, backup_file, files, dirs, tool, dry_run,
                   operations, success_count, response, referenced_images,
                   unused_images, pending, deleted_count, arg, ret>>

\* a loop turn whose os.rename raises (the source is gone, or the system
\* refuses): the except branch
RenameFail ==
    /\ pc = "loop"
    /\ tool = "normalize"
    /\ log' = Append(log, "err")
    /\ pc' = AfterTurn(Len(log'), operations, success_count)
    /\ UNCHANGED <<json_file, backup_file, files, dirs, tool, dry_run, json_data,
                   operations, success_count, response, referenced_images,
                   unused_images, pending, deleted_count, arg, ret>>

\* save_json_data, first half: shutil.copy2(json_file_path, backup_path)
Backup ==
    /\ pc = "backup"
    /\ backup_file' = <<json_file>>
    /\ pc' = "write"
    /\ UNCHANGED <<json_file, files, dirs, tool, dry_run, json_data, operations,
                   success_count, log, response, referenced_images,
                   unused_images, pending, deleted_count, arg, ret>>

\* save_json_data, second half: json.dump(data, file)
WriteJson ==
    /\ pc = "write"
    /\ json_file' = json_data
    /\ pc' = "done"
    /\ UNCHANGED <<backup_file, files, dirs, tool, dry_run, json_data, operations,
                   success_count, log, response, referenced_images,
                   unused_images, pending, deleted_count, arg, ret>>

\* remove_unused_images up to the prompt: nothing unused, or dry_run, returns
AfterListing(unused, dry) ==
    IF unused = {} THEN "done" ELSE IF dry THEN "done" ELSE "prompt"

\* imgnormalizer.py is started: load, extract, scan, list
CleanupMain(dry) ==
    /\ AtShell
    /\ tool' = "cleanup"
    /\ dry_run' = dry
    /\ json_data' = json_file
    /\ referenced_images' = extract_referenced_images(json_file)
    /\ unused_images' = UnusedImages(files, dirs, referenced_images')
    /\ pending' = unused_images'
    /\ deleted_count' = 0
    /\ pc' = AfterListing(unused_images', dry)
    /\ operations' = <<>>
    /\ success_count' = 0
    /\ log' = <<>>
    /\ response' = <<>>
    /\ UNCHANGED <<json_file, backup_file, files, dirs, arg, ret>>

\* the answer at remove_unused_images' prompt
CleanupConfirm(r) ==
    /\ pc = "prompt"
    /\ tool = "cleanup"
    /\ response' = r
    /\ pc' = IF Confirmed(r) THEN "delete" ELSE "done"
    /\ UNCHANGED <<json_file, backup_file, files, dirs, tool, dry_run, json_data,
                   operations, success_count, log, referenced_images,
                   unused_images, pending, deleted_count, arg, ret>>

\* a turn of the deletion loop whose unlink succeeds; a set is iterated in
\* no particular order
UnlinkOk(image) ==
    /\ pc = "delete"
    /\ image \in pending
    /\ image \in files
    /\ files' = files \ {image}
    /\ deleted_count' = deleted_count + 1
    /\ pending' = pending \ {image}
    /\ pc' = IF pending' = {} THEN "done" ELSE "delete"
    /\ UNCHANGED <<json_file, backup_file, dirs, tool, dry_run, json_data,
                   operations, success_count, log, response, referenced_images,
                   unused_images, arg, ret>>

\* a turn whose unlink raises OSError
UnlinkFail(image) ==
    /\ pc = "delete"
    /\ image \in pending
    /\ pending' = pending \ {image}
    /\ pc' = IF pending' = {} THEN "done" ELSE "delete"
    /\ UNCHANGED <<json_file, backup_file, files, dirs, tool, dry_run, json_data,
                   operations, success_count, log, response, referenced_images,
                   unused_images, deleted_count, arg, ret>>

\* the process ends where it stands: it is killed or interrupted, or
\* save_json_data gives up (shutil.copy2 raises, the write's except branch
\* calls sys.exit(1))
Crash ==
    /\ pc \in {"prompt", "loop", "backup", "write", "delete"}
    /\ pc' = "crashed"
    /\ UNCHANGED <<json_file, backup_file, files, dirs, tool, dry_run, json_data,
                   operations, success_count, log, response, referenced_images,
                   unused_images, pending, deleted_count, arg, ret>>

Next ==
    \/ \E dry \in BOOLEAN : NormalizeMain(dry)
    \/ \E r \in Responses : NormalizeConfirm(r)
    \/ RenameOk
    \/ RenameFail
    \/ Backup
    \/ WriteJson
    \/ \E dry \in BOOLEAN : CleanupMain(dry)
    \/ \E r \in Responses : CleanupConfirm(r)
    \/ \E image \in FileNames : UnlinkOk(image)
    \/ \E image \in FileNames : UnlinkFail(image)
    \/ Crash

Spec == Init /\ [][Next]_vars

-----------------------------------------------------------------------------
(* normalize_filename called directly on every string up to MaxLen *)

InitFn ==
    /\ arg \in Strings
    /\ ret = <<>>
    /\ pc = "call"
    /\ tool = "normalize_filename"
    /\ json_file = <<>>
    /\ backup_file = <<>>
    /\ files = {}
    /\ dirs = {}
    /\ dry_run = FALSE
    /\ json_data = <<>>
    /\ operations = <<>>
    /\ success_count = 0
    /\ log = <<>>
    /\ response = <<>>
    /\ referenced_images = {}
    /\ unused_images = {}
    /\ pending = {}
    /\ deleted_count = 0

CallNormalizeFilename ==
    /\ pc = "call"
    /\ ret' = normalize_filename(arg)
    /\ pc' = "returned"
    /\ UNCHANGED <<json_file, backup_file, files, dirs, tool, dry_run, json_data,
                   operations, success_count, log, response, referenced_images,
                   unused_images, pending, deleted_count, arg>>

NextFn == CallNormalizeFilename

SpecFn == InitFn /\ [][NextFn]_vars

-----------------------------------------------------------------------------
(* Helpers of the properties *)

Max(S) == CHOOSE x \in S : \A y \in S : y <= x

Positions(s, c) == {i \in 1..Len(s) : s[i] = c}

\* the file name an image_url ends with: what follows its last '/' or '\'
TrailingName(url) ==
    LET seps == Positions(url, "/") \cup Positions(url, "\\")
    IN  IF seps = {} THEN url ELSE SubSeq(url, Max(seps) + 1, Len(url))

\* what precedes the file name: the directory segments and every separator
DirectoryPart(url) == SubSeq(url, 1, Len(url) - Len(TrailingName(url)))

\* the records (1-based) the plan's operations are for
PlannedRecord(k) == operations[k][3] + 1

\* the run of normalize_filenames.py is in or past its execution loop
Executing == tool = "normalize" /\ pc \in {"loop", "backup", "write", "done", "crashed"}

-----------------------------------------------------------------------------
(* Properties of the planner and of the execution loop *)

\* C1: the plan of get_file_operations never holds two operations with the
\* same destination and distinct sources.
C1_NoSharedDestination ==
    \A j, k \in 1..Len(operations) :
        operations[j][2] = operations[k][2] => operations[j][1] = operations[k][1]

\* C2: during and after the execution of a plan, for every processed record,
\* the image_url is patched (it names the operation's destination) if and
\* only if the record's own rename succeeded, and the file it names exists
\* in the folder.
C2_ProcessedRecordsConsistent ==
    Executing =>
        \A k \in 1..Len(log) :
            LET name == TrailingName(json_data[PlannedRecord(k)].image_url)
            IN  /\ (name = operations[k][2]) <=> (log[k] = "ok")
                /\ (name = operations[k][1]) <=> (log[k] = "err")
                /\ name \in files

\* C6: a patched image_url keeps every directory segment and every separator
\* of the original path; only the trailing file name is replaced, by the
\* canonical file name.
C6_OnlyFilenameReplaced ==
    (tool = "normalize" /\ pc \in {"loop", "backup", "write"}) =>
        \A k \in 1..Len(log) :
            log[k] = "ok" =>
                LET old == json_file[PlannedRecord(k)].image_url
                    new == json_data[PlannedRecord(k)].image_url
                IN  /\ DirectoryPart(new) = DirectoryPart(old)
                    /\ TrailingName(new) = normalize_filename(TrailingName(old))

\* C10: no rename of the execution loop overwrites a file: when a rename is
\* applied its destination does not exist in the folder, so the number of
\* files of the folder stays what it was.
C10_NoOverwrite ==
    [][(tool = "normalize" /\ files' # files) =>
           /\ ~exists(CurrentOp[2], files, dirs)
           /\ Cardinality(files') = Cardinality(files)]_vars

\* a record the plan has no operation for
Untouched(i) == \A k \in 1..Len(operations) : PlannedRecord(k) # i

\* C3: when the document is persisted, every operation of the plan has been
\* tried (a failure did not stop the loop); the record of an operation whose
\* rename failed is written as it was, and the record of an operation whose
\* rename succeeded is written with its image_url updated.
C3_FailedRenameLeavesRecord ==
    [][json_file' # json_file =>
           /\ Len(log) = Len(operations)
           /\ \A k \in 1..Len(operations) :
                  LET before == json_file[PlannedRecord(k)]
                      after  == json_file'[PlannedRecord(k)]
                  IN  /\ log[k] = "err" => after = before
                      /\ log[k] = "ok" =>
                             /\ after.image_url # before.image_url
                             /\ after.image_url =
                                    normalize_image_path(before.image_url)
                             /\ after.title = before.title]_vars

\* C3 witness: a finished run in which one rename failed, another succeeded
\* and the document was persisted.
C3_Witness ==
    /\ tool = "normalize"
    /\ pc = "done"
    /\ \E j, k \in 1..Len(log) : log[j] = "err" /\ log[k] = "ok"
    /\ json_file = json_data
    /\ backup_file # <<>>

\* C4: after the execution loop the JSON file is written if and only if
\* success_count > 0.  The save is entered only with success_count > 0; the
\* JSON file changes only then, to the whole in-memory document (untouched
\* records included), and only once the backup holds the JSON file's prior
\* content; the backup changes only then, to a copy of the JSON file; a run
\* that ends with success_count > 0 has written both.
C4_SaveIffSuccess ==
    /\ [](pc \in {"backup", "write"} => success_count > 0)
    /\ []((tool = "normalize" /\ pc = "done" /\ success_count > 0) =>
              (json_file = json_data /\ backup_file # <<>>))
    /\ [][json_file' # json_file =>
              /\ success_count > 0
              /\ backup_file = <<json_file>>
              /\ json_file' = json_data
              /\ Len(json_file') = Len(json_file)
              /\ \A i \in 1..Len(json_file) :
                     Untouched(i) => json_file'[i] = json_file[i]]_vars
    /\ [][backup_file' # backup_file =>
              /\ success_count > 0
              /\ backup_file' = <<json_file>>
              /\ json_file' = json_file]_vars

\* C4 witness: a finished run with a success, the document written with a
\* record no operation touched, and the backup made.
C4_Witness ==
    /\ tool = "normalize"
    /\ pc = "done"
    /\ success_count > 0
    /\ json_file = json_data
    /\ backup_file # <<>>
    /\ backup_file # <<json_file>>
    /\ \E i \in 1..Len(json_file) : Untouched(i)

\* C5: in dry-run mode neither pipeline renames, deletes, writes the JSON or
\* the backup, or reaches the confirmation prompt: a dry run ends right
\* after its plan is shown.
C5_DryRunTouchesNothing ==
    [][dry_run' =>
           /\ files' = files
           /\ dirs' = dirs
           /\ json_file' = json_file
           /\ backup_file' = backup_file
           /\ pc' = "done"]_vars

\* C5 witness: a dry run of the normalizer that ended with a non-empty plan.
C5_Witness ==
    /\ dry_run
    /\ tool = "normalize"
    /\ pc = "done"
    /\ operations # <<>>

-----------------------------------------------------------------------------
(* Properties of normalize_filename *)

\* a stem cut before its last '_', followed by the extension; the whole name
\* when the stem has no '_'
StripHash(f, stem, ext) ==
    IF Positions(stem, "_") = {} THEN f
    ELSE SubSeq(stem, 1, Max(Positions(stem, "_")) - 1) \o ext

\* where the extension starts when a name is cut at its last '.'
\* (past the end when the name has no '.')
CutAtLastDot(f) ==
    IF Positions(f, ".") = {} THEN Len(f) + 1 ELSE Max(Positions(f, "."))

\* where the extension starts as os.path.splitext has it: at the last '.',
\* when that dot lies after the last '/' and a character other than '.' lies
\* between that '/' (or the start) and the dot; past the end otherwise
CutAtExtension(f) ==
    LET segment == IF Positions(f, "/") = {} THEN 1 ELSE Max(Positions(f, "/")) + 1
        dot == CutAtLastDot(f)
    IN  IF /\ dot <= Len(f)
           /\ dot >= segment
           /\ \E k \in segment..(dot - 1) : f[k] # "."
        THEN dot ELSE Len(f) + 1

\* the reference result for a given start of the extension
Reference(f, cut) == StripHash(f, SubSeq(f, 1, cut - 1), SubSeq(f, cut, Len(f)))

\* C7: for every string f, normalize_filename(f) is the reference result with
\* (stem, extension) the split of f at its last '.'.
C7_SplitAtLastDot ==
    pc = "returned" => ret = Reference(arg, CutAtLastDot(arg))

\* C7, amended: for every string f, normalize_filename(f) is the reference
\* result with (stem, extension) the split os.path.splitext makes: at the
\* last '.', unless that dot precedes the last '/' or has only dots between
\* it and the start of the last path segment, and then the extension is
\* empty.  In particular f is returned unchanged when that stem has no '_'.
C7_SplitAsSplitext ==
    pc = "returned" =>
        /\ ret = Reference(arg, CutAtExtension(arg))
        /\ Positions(SubSeq(arg, 1, CutAtExtension(arg) - 1), "_") = {} => ret = arg

\* C7 witness: a name beginning with '.' whose only '_' follows its last '.'
\* has been normalized, and was changed.
C7_Witness ==
    /\ pc = "returned"
    /\ Len(arg) > 1
    /\ arg[1] = "."
    /\ Positions(arg, ".") = {1}
    /\ Positions(arg, "_") # {}
    /\ ret # arg

-----------------------------------------------------------------------------
(* Properties of the cleanup pipeline *)

\* R: the file names the JSON references
ReferencedNames(doc) ==
    {TrailingName(doc[i].image_url) :
        i \in {j \in 1..Len(doc) : "image_url" \in DOMAIN doc[j]}}

\* F: the image files of the folder
ImageFiles == {f \in files : lower(suffix(f)) \in image_extensions}

\* the listing of a cleanup run is exactly F minus R
UnusedIsDifference ==
    (tool = "cleanup" /\ pc = "prompt") =>
        \A f \in FileNames :
            f \in unused_images <=> (f \in ImageFiles /\ f \notin ReferencedNames(json_file))

\* the step that starts cleanup again right after a cleanup run that ended
\* with a confirmed deletion
RerunAfterDeletion ==
    /\ tool = "cleanup"
    /\ pc = "done"
    /\ Confirmed(response)
    /\ tool' = "cleanup"
    /\ pc' # "done" \/ response' # response

C9_DeleteOnlyConfirmedUnused ==
    /\ [](pc = "delete" => (tool = "cleanup" /\ Confirmed(response)))
    /\ [][(tool = "cleanup" /\ tool' = "cleanup" /\ files' # files) =>
              /\ pc = "delete"
              /\ Confirmed(response)
              /\ files' \subseteq files
              /\ \A f \in files \ files' :
                     /\ f \in ImageFiles
                     /\ f \notin ReferencedNames(json_file)
              /\ json_file' = json_file
              /\ dirs' = dirs]_vars

\* C9 witness: a confirmed cleanup has deleted an image while a referenced
\* image and a file outside the allow-list stayed in the folder.
C9_Witness ==
    /\ tool = "cleanup"
    /\ pc = "done"
    /\ deleted_count > 0
    /\ NT \in files
    /\ ImageFiles \cap ReferencedNames(json_file) # {}

====
